---- MODULE Spec2Model ----
(***************************************************************************)
(* PolarisRegistry (trpc/naming/polarismesh/polaris_registry.cc): the      *)
(* registry adapter between the generic naming interface and the polaris   *)
(* provider API.  The state is the adapter's members, the process-wide     *)
(* TrpcConfig and TrpcShareContext singletons it reads and drives, and a   *)
(* record of the last operation: its input, its return value and the       *)
(* outbound calls it made.                                                 *)
(***************************************************************************)
EXTENDS Integers, Sequences, FiniteSets, TLC

VARIABLES
  init_,                \* bool init_
  plugin_config_,       \* PolarisNamingConfig plugin_config_
  heartbeat_interval_,  \* heartbeat_interval_
  heartbeat_timeout_,   \* heartbeat_timeout_
  services_config_,     \* map ServiceKey -> ServiceConfig
  provider_api_,        \* unique_ptr<ProviderApi>: 0 is nullptr, n > 0 the n-th object created
  provider_apis,        \* number of ProviderApi objects created so far
  share_context,        \* TrpcShareContext singleton: TRUE while its polaris context is initialized
  trpc_config,          \* TrpcConfig singleton: global config and the registry plugin's config
  pending,              \* number of PolarisHeartbeatCallback objects the backend holds, not yet invoked
  future_,              \* the Future<> AsyncHeartBeat returned last, as its caller holds it
  last,                 \* the last operation: input, result, outbound calls
  objects,              \* RegistryInfo objects that caller threads share, by object id
  threads               \* caller threads inside an operation: position and locals

adapter == <<init_, plugin_config_, heartbeat_interval_, heartbeat_timeout_,
             services_config_, provider_api_, provider_apis, share_context>>
vars == <<init_, plugin_config_, heartbeat_interval_, heartbeat_timeout_,
          services_config_, provider_api_, provider_apis, share_context,
          trpc_config, pending, future_, last, objects, threads>>
\* what belongs to the callers of concurrently running operations
callers == <<objects, threads>>

----------------------------------------------------------------------------
(* Bounds of the model *)

\* ProviderApi objects created over one run
MaxProviderApis == 2
\* heartbeat callbacks in flight at the same time
MaxPending == 1
\* caller threads that run operations concurrently
MaxThreads == 2

(* Program constants *)

\* heartbeat_timeout_ = configured heartbeat_timeout + 1000
CompatOffset == 1000

----------------------------------------------------------------------------
(* Data *)

EmptyMeta == [k \in {} |-> ""]

nullptr == <<>>
PtrTo(obj) == <<obj>>
Deref(ptr) == ptr[1]

kReturnOk == "kReturnOk"
kReturnExistedResource == "kReturnExistedResource"
kReturnTimeout == "kReturnTimeout"
ReturnCodes == {kReturnOk, kReturnExistedResource, kReturnTimeout}

\* entries of registry_config.services_config
SvcA == [namespace_ |-> "ns1", name |-> "svcA", token |-> "tokA",
         instance_id |-> "", metadata |-> ("region" :> "sz")]
SvcB == [namespace_ |-> "ns1", name |-> "svcB", token |-> "tokB",
         instance_id |-> "inst-B", metadata |-> EmptyMeta]
\* the key of SvcA with another policy
SvcA2 == [namespace_ |-> "ns1", name |-> "svcA", token |-> "tokA2",
          instance_id |-> "inst-A", metadata |-> ("zone" :> "gz")]
\* an entry without namespace and without token
SvcN == [namespace_ |-> "", name |-> "svcA", token |-> "",
         instance_id |-> "", metadata |-> EmptyMeta]

\* a default-constructed trpc::naming::RegistryConfig
DefaultRegistryConfig ==
  [heartbeat_interval |-> 3000, heartbeat_timeout |-> 2000, services_config |-> <<>>]
RegistryConfig1 ==
  [heartbeat_interval |-> 3000, heartbeat_timeout |-> 2000, services_config |-> <<SvcA, SvcB>>]
RegistryConfig2 ==
  [heartbeat_interval |-> 1000, heartbeat_timeout |-> 5000, services_config |-> <<SvcA2, SvcN>>]

\* a default-constructed PolarisNamingConfig, and one handed to the plugin before Init
DefaultPluginConfig == [name |-> "", registry_config |-> DefaultRegistryConfig]
SuppliedPluginConfig == [name |-> "polarismesh", registry_config |-> RegistryConfig1]

\* what the TrpcConfig singleton may hold; registry is <<>> when the yaml has
\* no plugins/registry/polarismesh node
TrpcConfigs ==
  { [env_namespace |-> "", enable_heartbeat |-> TRUE, registry |-> <<RegistryConfig1>>],
    [env_namespace |-> "ns1", enable_heartbeat |-> FALSE, registry |-> <<RegistryConfig2>>],
    [env_namespace |-> "", enable_heartbeat |-> FALSE, registry |-> <<>>] }

\* the name of the config after SetPolarisSelectorConf(config)
LoadedNames == {"", "polarismesh"}

\* RegistryInfo objects callers pass
Info(name, meta) == [name |-> name, host |-> "10.0.0.1", port |-> 8000, meta |-> meta]
RegistryInfos ==
  { Info("svcA", EmptyMeta),
    Info("svcA", ("namespace" :> "ns1") @@ ("region" :> "bj")),
    Info("svcA", ("namespace" :> "ns1") @@ ("instance_id" :> "inst-9")),
    Info("svcB", ("namespace" :> "ns1") @@ ("token" :> "tokX")),
    Info("svcB", ("namespace" :> "ns2") @@ ("enable_health_check" :> "0")),
    Info("svcZ", ("namespace" :> "ns2") @@ ("enable_health_check" :> "1")) }
InfoPtrs == {nullptr} \cup {PtrTo(i) : i \in RegistryInfos}

----------------------------------------------------------------------------
(* The record of an operation *)

NoRequest == [shape |-> "none"]
Call(api, req, code) == [api |-> api, req |-> req, code |-> code]

Observed(op, arg, ret, future, calls, info) ==
  [op |-> op, arg |-> arg, was_init |-> init_, ret |-> ret, future |-> future,
   calls |-> calls, info |-> info]

----------------------------------------------------------------------------
(* Init and Destroy *)

ServiceKey(namespace, name) == [namespace_ |-> namespace, name_ |-> name]

\* std::map::insert: an existing key keeps its value
Insert(map, key, value) ==
  IF key \in DOMAIN map THEN map ELSE map @@ (key :> value)

RECURSIVE InsertServices(_, _)
InsertServices(map, services) ==
  IF services = <<>> THEN map
  ELSE InsertServices(
         Insert(map, ServiceKey(Head(services).namespace_, Head(services).name), Head(services)),
         Tail(services))

\* TrpcConfig::GetPluginConfig("registry", "polarismesh", config.registry_config):
\* leaves the default-constructed config when the node is absent
GetPluginConfig(g) ==
  IF g.registry = <<>> THEN DefaultRegistryConfig ELSE g.registry[1]

\* the config Init works with: loaded when plugin_config_ carries no name
LoadedConfig(name) ==
  IF plugin_config_.name = ""
  THEN [name |-> name, registry_config |-> GetPluginConfig(trpc_config)]
  ELSE plugin_config_

LoadCalls ==
  IF plugin_config_.name = "" THEN <<Call("TrpcConfig::GetPluginConfig", NoRequest, 0)>> ELSE <<>>

\* DerivedTimeout without the offset
DerivedTimeoutNoOffset(config) == config.registry_config.heartbeat_timeout

DerivedTimeout(config) == config.registry_config.heartbeat_timeout + CompatOffset

\* lines 44-52: what every Init that is not a repeat does before touching the backend
InitMembers(config) ==
  /\ plugin_config_' = config
  /\ heartbeat_interval_' = config.registry_config.heartbeat_interval
  /\ heartbeat_timeout_' = DerivedTimeout(config)
  /\ services_config_' = InsertServices(services_config_, config.registry_config.services_config)

\* InitAlready without the early return: the members are derived again
InitAlreadyDerivesAgain ==
  /\ init_
  /\ InitMembers(LoadedConfig(""))
  /\ last' = Observed("Init", nullptr, 0, "none", LoadCalls, nullptr)
  /\ UNCHANGED <<init_, provider_api_, provider_apis, share_context, trpc_config, pending, future_, callers>>

InitAlready ==
  /\ init_
  /\ last' = Observed("Init", nullptr, 0, "none", <<>>, nullptr)
  /\ UNCHANGED <<adapter, trpc_config, pending, future_, callers>>

InitShareContextFails ==
  /\ ~init_
  /\ \E name \in LoadedNames :
       /\ InitMembers(LoadedConfig(name))
       /\ last' = Observed("Init", nullptr, -1, "none",
                           LoadCalls \o <<Call("TrpcShareContext::Init", NoRequest, -1)>>, nullptr)
  /\ UNCHANGED <<init_, provider_api_, provider_apis, share_context, trpc_config, pending, future_, callers>>

\* InitCreateFails without the check of the created handle
InitCreateUnchecked ==
  /\ ~init_
  /\ \E name \in LoadedNames :
       /\ InitMembers(LoadedConfig(name))
       /\ last' = Observed("Init", nullptr, 0, "none",
                           LoadCalls \o <<Call("TrpcShareContext::Init", NoRequest, 0),
                                          Call("ProviderApi::Create", NoRequest, 0)>>, nullptr)
  /\ share_context' = TRUE
  /\ provider_api_' = 0
  /\ init_' = TRUE
  /\ UNCHANGED <<provider_apis, trpc_config, pending, future_, callers>>

InitCreateFails ==
  /\ ~init_
  /\ \E name \in LoadedNames :
       /\ InitMembers(LoadedConfig(name))
       /\ last' = Observed("Init", nullptr, -1, "none",
                           LoadCalls \o <<Call("TrpcShareContext::Init", NoRequest, 0),
                                          Call("ProviderApi::Create", NoRequest, 0)>>, nullptr)
  /\ share_context' = TRUE
  /\ provider_api_' = 0
  /\ UNCHANGED <<init_, provider_apis, trpc_config, pending, future_, callers>>

InitSucceeds ==
  /\ ~init_
  /\ provider_apis < MaxProviderApis
  /\ \E name \in LoadedNames :
       /\ InitMembers(LoadedConfig(name))
       /\ last' = Observed("Init", nullptr, 0, "none",
                           LoadCalls \o <<Call("TrpcShareContext::Init", NoRequest, 0),
                                          Call("ProviderApi::Create", NoRequest, provider_apis + 1)>>,
                           nullptr)
  /\ share_context' = TRUE
  /\ provider_apis' = provider_apis + 1
  /\ provider_api_' = provider_apis + 1
  /\ init_' = TRUE
  /\ UNCHANGED <<trpc_config, pending, future_, callers>>

RegistryInit == InitAlready \/ InitShareContextFails \/ InitCreateFails \/ InitSucceeds

DestroyNoInit ==
  /\ ~init_
  /\ last' = Observed("Destroy", nullptr, 0, "none", <<>>, nullptr)
  /\ UNCHANGED <<adapter, trpc_config, pending, future_, callers>>

\* DestroyInit without services_config_.clear()
DestroyInitKeepsIndex ==
  /\ init_
  /\ provider_api_' = 0
  /\ share_context' = FALSE
  /\ init_' = FALSE
  /\ last' = Observed("Destroy", nullptr, 0, "none",
                      <<Call("TrpcShareContext::Destroy", NoRequest, 0)>>, nullptr)
  /\ UNCHANGED <<plugin_config_, heartbeat_interval_, heartbeat_timeout_, services_config_,
                 provider_apis, trpc_config, pending, future_, callers>>

DestroyInit ==
  /\ init_
  /\ services_config_' = EmptyMeta
  /\ provider_api_' = 0
  /\ share_context' = FALSE
  /\ init_' = FALSE
  /\ last' = Observed("Destroy", nullptr, 0, "none",
                      <<Call("TrpcShareContext::Destroy", NoRequest, 0)>>, nullptr)
  /\ UNCHANGED <<plugin_config_, heartbeat_interval_, heartbeat_timeout_, provider_apis,
                 trpc_config, pending, future_, callers>>

Destroy == DestroyNoInit \/ DestroyInit

\* the process reloads its configuration file
TrpcConfigInit ==
  /\ \E g \in TrpcConfigs : g # trpc_config /\ trpc_config' = g
  /\ last' = Observed("TrpcConfig", nullptr, 0, "none", <<>>, nullptr)
  /\ UNCHANGED <<adapter, pending, future_, callers>>

----------------------------------------------------------------------------
(* Translation of a RegistryInfo *)

GetStringFromMetadata(meta, key, default) ==
  IF key \in DOMAIN meta THEN meta[key] ELSE default

\* "0"/"1" in the caller's metadata to the request's integer flag
FlagFromString(str) == IF str = "1" THEN 1 ELSE 0

\* ConvertToPolarisRegistryInfo: the fields of the caller's info that the
\* backend request takes over; namespace, name and timeout are set by the caller
ConvertToPolarisRegistryInfo(info) ==
  [service_namespace |-> "",
   service_name |-> "",
   service_token |-> GetStringFromMetadata(info.meta, "token", ""),
   instance_id |-> GetStringFromMetadata(info.meta, "instance_id", ""),
   host |-> info.host,
   port |-> info.port,
   timeout |-> 0,
   metadata |-> info.meta,
   enable_health_check |->
     FlagFromString(GetStringFromMetadata(info.meta, "enable_health_check", "0"))]

\* ResolveNamespace with the metadata entry taken first
ResolveNamespaceMetadataFirst(meta) ==
  IF "namespace" \in DOMAIN meta THEN meta["namespace"] ELSE trpc_config.env_namespace

\* env_namespace of the global config, else the "namespace" entry of the metadata
ResolveNamespace(meta) ==
  IF trpc_config.env_namespace = ""
  THEN GetStringFromMetadata(meta, "namespace", "")
  ELSE trpc_config.env_namespace

\* returns the int result and the updated polaris_registry_info
GetTokenFromRegistryConfig(pri) ==
  LET service_key == ServiceKey(pri.service_namespace, pri.service_name) IN
  IF service_key \notin DOMAIN services_config_
  THEN [ret |-> -1, info |-> pri]
  ELSE [ret |-> 0,
        info |-> [pri EXCEPT !.service_token = services_config_[service_key].token]]

GetMetadataFromRegistryConfig(pri) ==
  LET service_key == ServiceKey(pri.service_namespace, pri.service_name) IN
  IF service_key \in DOMAIN services_config_
  THEN [pri EXCEPT !.metadata = services_config_[service_key].metadata]
  ELSE pri

\* lines 83-90: the converted info with name, namespace and timeout filled in
NamedRegistryInfo(info) ==
  [ConvertToPolarisRegistryInfo(info) EXCEPT !.service_name = info.name,
                                             !.service_namespace = ResolveNamespace(info.meta),
                                             !.timeout = heartbeat_timeout_]

\* lines 93-96: the return that logs "token is empty"
TokenIsEmpty(info) ==
  LET named == NamedRegistryInfo(info) IN
  named.service_token = "" /\ GetTokenFromRegistryConfig(named).ret # 0

SetupPolarisRegistryInfo(info) ==
  LET named == NamedRegistryInfo(info)
      looked == GetTokenFromRegistryConfig(named)
  IN IF named.service_token = ""
     THEN IF looked.ret # 0
          THEN named
          ELSE GetMetadataFromRegistryConfig(looked.info)
     ELSE GetMetadataFromRegistryConfig(named)

----------------------------------------------------------------------------
(* Requests to the backend *)

\* InstanceRegisterRequest(namespace, name, token, host, port) and its setters
InstanceRegisterRequest(pri) ==
  [shape |-> "register",
   service_namespace |-> pri.service_namespace,
   service_name |-> pri.service_name,
   service_token |-> pri.service_token,
   host |-> pri.host,
   port |-> pri.port,
   timeout |-> pri.timeout,
   metadata |-> pri.metadata,
   health_check_flag |-> pri.enable_health_check]

\* the (namespace, name, token, host, port) constructor of a deregister or heartbeat request
RequestByAddress(namespace, name, token, host, port, timeout) ==
  [shape |-> "address", service_namespace |-> namespace, service_name |-> name,
   service_token |-> token, instance_id |-> "", host |-> host, port |-> port,
   timeout |-> timeout]

\* the (token, instance_id) constructor of a deregister or heartbeat request
RequestById(token, instance_id, timeout) ==
  [shape |-> "instance_id", service_namespace |-> "", service_name |-> "",
   service_token |-> token, instance_id |-> instance_id, host |-> "", port |-> 0,
   timeout |-> timeout]

----------------------------------------------------------------------------
(* Register, Unregister, HeartBeat, AsyncHeartBeat *)

\* Refused without the init_ check
RefusedNullOnly(info_ptr) == info_ptr = nullptr

\* the two checks every operation starts with
Refused(info_ptr) == ~init_ \/ info_ptr = nullptr

\* RegisterHealthCheck without the look at the caller's metadata
RegisterHealthCheckGlobalOnly(info, pri) ==
  [pri EXCEPT !.enable_health_check = IF trpc_config.enable_heartbeat THEN 1 ELSE 0]

\* the health-check flag Register sends
RegisterHealthCheck(info, pri) ==
  IF "enable_health_check" \notin DOMAIN info.meta
  THEN [pri EXCEPT !.enable_health_check = IF trpc_config.enable_heartbeat THEN 1 ELSE 0]
  ELSE pri

\* RegisterSucceeded without kReturnExistedResource
RegisterSucceededOkOnly(code) == code = kReturnOk

RegisterSucceeded(code) == code \in {kReturnOk, kReturnExistedResource}

\* meta["instance_id"] = instance_id
WriteInstanceId(info, instance_id) ==
  [info EXCEPT !.meta = [k \in DOMAIN info.meta \cup {"instance_id"} |->
                           IF k = "instance_id" THEN instance_id ELSE info.meta[k]]]

\* what ProviderApi::Register may answer: a return code, and whether it
\* assigned the instance id out-parameter
RegisterAnswers ==
  [code : ReturnCodes, assigned : BOOLEAN, instance_id : {"inst-1"}]

RegisterRefused ==
  /\ \E info_ptr \in InfoPtrs :
       /\ Refused(info_ptr)
       /\ last' = Observed("Register", info_ptr, -1, "none", <<>>, info_ptr)
  /\ UNCHANGED <<adapter, trpc_config, pending, future_, callers>>

RegisterCalls ==
  /\ \E info_ptr \in InfoPtrs, answer \in RegisterAnswers :
       /\ ~Refused(info_ptr)
       /\ LET info == Deref(info_ptr)
              pri == RegisterHealthCheck(info, SetupPolarisRegistryInfo(info))
              instance_id == IF answer.assigned THEN answer.instance_id ELSE pri.instance_id
              call == Call("ProviderApi::Register", InstanceRegisterRequest(pri), answer.code)
                        @@ ("instance_id" :> instance_id)
          IN IF RegisterSucceeded(answer.code)
             THEN last' = Observed("Register", info_ptr, 0, "none", <<call>>,
                                   PtrTo(WriteInstanceId(info, instance_id)))
                            @@ ("token_is_empty" :> TokenIsEmpty(info))
             ELSE last' = Observed("Register", info_ptr, -1, "none", <<call>>, info_ptr)
                            @@ ("token_is_empty" :> TokenIsEmpty(info))
  /\ UNCHANGED <<adapter, trpc_config, pending, future_, callers>>

Register == RegisterRefused \/ RegisterCalls

\* DeregisterRequest without the (token, instance_id) branch
DeregisterRequestByAddress(pri) ==
  RequestByAddress(pri.service_namespace, pri.service_name, pri.service_token,
                   pri.host, pri.port, pri.timeout)

DeregisterRequest(pri) ==
  IF pri.instance_id = ""
  THEN RequestByAddress(pri.service_namespace, pri.service_name, pri.service_token,
                        pri.host, pri.port, pri.timeout)
  ELSE RequestById(pri.service_token, pri.instance_id, pri.timeout)

Succeeded(code) == code = kReturnOk

UnregisterRefused ==
  /\ \E info_ptr \in InfoPtrs :
       /\ Refused(info_ptr)
       /\ last' = Observed("Unregister", info_ptr, -1, "none", <<>>, info_ptr)
  /\ UNCHANGED <<adapter, trpc_config, pending, future_, callers>>

\* UnregisterCalls returning -1 after "token is empty" instead of calling the backend
UnregisterCallsWithToken ==
  /\ \E info_ptr \in InfoPtrs, code \in ReturnCodes :
       /\ ~Refused(info_ptr)
       /\ LET pri == SetupPolarisRegistryInfo(Deref(info_ptr))
              call == Call("ProviderApi::Deregister", DeregisterRequest(pri), code)
          IN IF TokenIsEmpty(Deref(info_ptr))
             THEN last' = Observed("Unregister", info_ptr, -1, "none", <<>>, info_ptr)
             ELSE last' = Observed("Unregister", info_ptr, IF Succeeded(code) THEN 0 ELSE -1,
                                   "none", <<call>>, info_ptr)
                            @@ ("token_is_empty" :> FALSE)
  /\ UNCHANGED <<adapter, trpc_config, pending, future_, callers>>

UnregisterCalls ==
  /\ \E info_ptr \in InfoPtrs, code \in ReturnCodes :
       /\ ~Refused(info_ptr)
       /\ LET pri == SetupPolarisRegistryInfo(Deref(info_ptr))
              call == Call("ProviderApi::Deregister", DeregisterRequest(pri), code)
          IN last' = Observed("Unregister", info_ptr, IF Succeeded(code) THEN 0 ELSE -1,
                              "none", <<call>>, info_ptr)
                       @@ ("token_is_empty" :> TokenIsEmpty(Deref(info_ptr)))
  /\ UNCHANGED <<adapter, trpc_config, pending, future_, callers>>

Unregister == UnregisterRefused \/ UnregisterCalls

\* the key HeartBeat and AsyncHeartBeat look up
HeartbeatKey(info) == ServiceKey(ResolveNamespace(info.meta), info.name)

\* services_config_.find(service_key) != services_config_.end()
HeartbeatFound(info) == HeartbeatKey(info) \in DOMAIN services_config_

\* the returns before the backend is called: not initialized, null info, unknown service
ReturnsBeforeHeartbeat(info_ptr) ==
  IF Refused(info_ptr) THEN TRUE ELSE ~HeartbeatFound(Deref(info_ptr))

\* InstanceHeartbeatRequest without the (token, instance_id) branch
InstanceHeartbeatRequestByAddress(info) ==
  LET service_key == HeartbeatKey(info)
      policy == services_config_[service_key]
  IN RequestByAddress(service_key.namespace_, service_key.name_, policy.token,
                      info.host, info.port, heartbeat_timeout_)

InstanceHeartbeatRequest(info) ==
  LET service_key == HeartbeatKey(info)
      policy == services_config_[service_key]
  IN IF policy.instance_id = ""
     THEN RequestByAddress(service_key.namespace_, service_key.name_, policy.token,
                           info.host, info.port, heartbeat_timeout_)
     ELSE RequestById(policy.token, policy.instance_id, heartbeat_timeout_)

\* HeartBeatRefused returning 0
HeartBeatRefusedReturnsOk ==
  /\ \E info_ptr \in InfoPtrs :
       /\ ReturnsBeforeHeartbeat(info_ptr)
       /\ last' = Observed("HeartBeat", info_ptr, 0, "none", <<>>, info_ptr)
  /\ UNCHANGED <<adapter, trpc_config, pending, future_, callers>>

HeartBeatRefused ==
  /\ \E info_ptr \in InfoPtrs :
       /\ ReturnsBeforeHeartbeat(info_ptr)
       /\ last' = Observed("HeartBeat", info_ptr, -1, "none", <<>>, info_ptr)
  /\ UNCHANGED <<adapter, trpc_config, pending, future_, callers>>

HeartBeatCalls ==
  /\ \E info_ptr \in InfoPtrs, code \in ReturnCodes :
       /\ ~ReturnsBeforeHeartbeat(info_ptr)
       /\ LET call == Call("ProviderApi::Heartbeat",
                           InstanceHeartbeatRequest(Deref(info_ptr)), code)
          IN last' = Observed("HeartBeat", info_ptr, IF Succeeded(code) THEN 0 ELSE -1,
                              "none", <<call>>, info_ptr)
  /\ UNCHANGED <<adapter, trpc_config, pending, future_, callers>>

HeartBeat == HeartBeatRefused \/ HeartBeatCalls

\* AsyncHeartBeat's own copy of the resolution (lines 245-258)
AsyncHeartbeatKey(info) ==
  ServiceKey(IF trpc_config.env_namespace = ""
             THEN GetStringFromMetadata(info.meta, "namespace", "")
             ELSE trpc_config.env_namespace,
             info.name)

ReturnsBeforeAsyncHeartbeat(info_ptr) ==
  IF ~init_ THEN TRUE
  ELSE IF info_ptr = nullptr THEN TRUE
  ELSE AsyncHeartbeatKey(Deref(info_ptr)) \notin DOMAIN services_config_

\* AsyncInstanceHeartbeatRequest without SetTimeout
AsyncInstanceHeartbeatRequestNoTimeout(info) ==
  LET service_key == AsyncHeartbeatKey(info)
      policy == services_config_[service_key]
  IN IF policy.instance_id = ""
     THEN RequestByAddress(service_key.namespace_, service_key.name_, policy.token,
                           info.host, info.port, 0)
     ELSE RequestById(policy.token, policy.instance_id, 0)

\* AsyncHeartBeat's own copy of the request construction (lines 262-275)
AsyncInstanceHeartbeatRequest(info) ==
  LET service_key == AsyncHeartbeatKey(info)
      policy == services_config_[service_key]
  IN IF policy.instance_id = ""
     THEN RequestByAddress(service_key.namespace_, service_key.name_, policy.token,
                           info.host, info.port, heartbeat_timeout_)
     ELSE RequestById(policy.token, policy.instance_id, heartbeat_timeout_)

AsyncHeartBeatRefused ==
  /\ \E info_ptr \in InfoPtrs :
       /\ ReturnsBeforeAsyncHeartbeat(info_ptr)
       /\ last' = Observed("AsyncHeartBeat", info_ptr, 0, "exception", <<>>, info_ptr)
  /\ future_' = "exception"
  /\ UNCHANGED <<adapter, trpc_config, pending, callers>>

\* FutureOf ignoring the dispatch's return code
FutureAlwaysReady(code) == "ready"

\* lines 277-285: MakeExceptionFuture on a non-OK dispatch, else MakeReadyFuture
FutureOf(code) == IF Succeeded(code) THEN "ready" ELSE "exception"

\* the backend keeps the callback of a dispatch it accepted
AsyncHeartBeatCalls ==
  /\ \E info_ptr \in InfoPtrs, code \in ReturnCodes :
       /\ ~ReturnsBeforeAsyncHeartbeat(info_ptr)
       /\ Succeeded(code) => pending < MaxPending
       /\ LET call == Call("ProviderApi::AsyncHeartbeat",
                           AsyncInstanceHeartbeatRequest(Deref(info_ptr)), code)
          IN last' = Observed("AsyncHeartBeat", info_ptr, 0, FutureOf(code),
                              <<call>>, info_ptr)
       /\ future_' = FutureOf(code)
       /\ pending' = IF Succeeded(code) THEN pending + 1 ELSE pending
  /\ UNCHANGED <<adapter, trpc_config, callers>>

AsyncHeartBeat == AsyncHeartBeatRefused \/ AsyncHeartBeatCalls

\* the backend invokes a PolarisHeartbeatCallback on its own thread: the
\* callback logs the outcome it is given and is deleted
HeartbeatCallback ==
  /\ pending > 0
  /\ \E code \in ReturnCodes :
       last' = Observed("Callback", nullptr, 0, "none",
                        <<Call("PolarisHeartbeatCallback::Response", NoRequest, code)>>, nullptr)
  /\ pending' = pending - 1
  /\ UNCHANGED <<adapter, trpc_config, future_, callers>>

----------------------------------------------------------------------------

Initial ==
  /\ init_ = FALSE
  /\ plugin_config_ \in {DefaultPluginConfig, SuppliedPluginConfig}
  /\ heartbeat_interval_ = 0
  /\ heartbeat_timeout_ = 0
  /\ services_config_ = EmptyMeta
  /\ provider_api_ = 0
  /\ provider_apis = 0
  /\ share_context = FALSE
  /\ trpc_config \in TrpcConfigs
  /\ pending = 0
  /\ future_ = "none"
  /\ last = [op |-> "none", arg |-> nullptr, was_init |-> FALSE, ret |-> 0,
             future |-> "none", calls |-> <<>>, info |-> nullptr]
  /\ objects = <<>>
  /\ threads = <<>>

Next ==
  \/ RegistryInit
  \/ Destroy
  \/ Register
  \/ Unregister
  \/ HeartBeat
  \/ AsyncHeartBeat
  \/ HeartbeatCallback
  \/ TrpcConfigInit

Spec == Initial /\ [][Next]_vars

----------------------------------------------------------------------------
(* Properties *)

Operations == {"Register", "Unregister", "HeartBeat", "AsyncHeartBeat"}

\* the last operation reported failure: -1, or an exceptional future
Failed == IF last.op = "AsyncHeartBeat" THEN last.future = "exception" ELSE last.ret = -1

\* the last operation ran initialized on a non-null info
Served(op) == last.op = op /\ last.was_init /\ last.arg # nullptr

\* the (namespace, name) the last operation's info resolves to
ResolvedKey ==
  LET info == Deref(last.arg) IN
  [namespace_ |-> IF trpc_config.env_namespace # "" THEN trpc_config.env_namespace
                  ELSE IF "namespace" \in DOMAIN info.meta THEN info.meta["namespace"] ELSE "",
   name_ |-> info.name]

\* the index a first Init builds from a config: one entry per configured service
FreshIndex(config) ==
  LET services == config.registry_config.services_config
      keys == {[namespace_ |-> services[i].namespace_, name_ |-> services[i].name] :
                 i \in DOMAIN services}
  IN [k \in keys |->
        services[CHOOSE i \in DOMAIN services :
                   /\ services[i].namespace_ = k.namespace_ /\ services[i].name = k.name_
                   /\ \A j \in DOMAIN services :
                        (services[j].namespace_ = k.namespace_ /\ services[j].name = k.name_)
                          => i <= j]]

(* C1: while the adapter is uninitialized, or when the info is null, Register,
   Unregister, HeartBeat and AsyncHeartBeat fail (-1, or an exceptional future)
   and make no backend call. *)
C1_RefusedBeforeBackend ==
  (last.op \in Operations /\ (~last.was_init \/ last.arg = nullptr))
    => (Failed /\ last.calls = <<>>)

C1_Witness ==
  /\ last.op = "AsyncHeartBeat" /\ last.was_init /\ last.arg = nullptr
  /\ last.future = "exception"

(* C2: Init on an initialized adapter returns 0, makes no outbound call (no
   config load, no TrpcShareContext::Init, no ProviderApi::Create) and changes
   no member: index, interval, timeout, handle and shared context stay. *)
C2_RepeatedInitNoEffect ==
  [][(init_ /\ last'.op = "Init")
       => (/\ last'.ret = 0
           /\ last'.calls = <<>>
           /\ UNCHANGED <<adapter, trpc_config, pending, future_, callers>>)]_vars

C2_Witness == last.op = "Init" /\ last.was_init /\ last.ret = 0 /\ init_

(* C3: Destroy on an uninitialized adapter changes nothing; Destroy on an
   initialized one empties the index, releases the handle, tears the shared
   context down and clears init_; init_ is set again only by an Init that
   returns 0, and until then every operation fails without a backend call. *)
C3_Destroy ==
  [][/\ last'.op = "Destroy"
          => IF init_
             THEN /\ services_config_' = EmptyMeta
                  /\ provider_api_' = 0
                  /\ ~share_context'
                  /\ ~init_'
             ELSE UNCHANGED <<adapter, trpc_config, pending, future_, callers>>
     /\ (~init_ /\ init_') => (last'.op = "Init" /\ last'.ret = 0)
     /\ (~init_ /\ last'.op \in Operations)
          => /\ last'.calls = <<>>
             /\ IF last'.op = "AsyncHeartBeat" THEN last'.future = "exception"
                ELSE last'.ret = -1]_vars

C3_Witness ==
  /\ last.op = "Destroy" /\ last.was_init
  /\ ~init_ /\ services_config_ = EmptyMeta /\ provider_api_ = 0 /\ ~share_context

(* C4: a failed Init returns nonzero and leaves the adapter uninitialized
   without a handle, and the Init that succeeds right after a failed one
   reaches the state of a first successful Init: the index of its config, the
   timeouts of its config, a handle and an initialized shared context. *)
C4_RetryReachesFreshState ==
  [][/\ (last'.op = "Init" /\ last'.ret # 0) => (~init_' /\ provider_api_' = 0)
     /\ (last.op = "Init" /\ last.ret # 0 /\ last'.op = "Init" /\ last'.ret = 0)
          => /\ init_' /\ provider_api_' # 0 /\ share_context'
             /\ services_config_' = FreshIndex(plugin_config_')
             /\ heartbeat_interval_' = plugin_config_'.registry_config.heartbeat_interval
             /\ heartbeat_timeout_' = plugin_config_'.registry_config.heartbeat_timeout + 1000]_vars

(* C5: once a Destroy call has returned, the index is empty and the shared
   context is not initialized, also when the Init before it failed part-way. *)
C5_DestroyLeavesNothing ==
  last.op = "Destroy" => (services_config_ = EmptyMeta /\ ~share_context)

(* C6: a successful Init that follows a Destroy leaves exactly the entries of
   the config current at that Init in the index, and the timeout derived
   from it. *)
C6_InitAfterDestroyRebuilds ==
  [][(last.op = "Destroy" /\ last'.op = "Init" /\ last'.ret = 0)
       => /\ services_config_' = FreshIndex(plugin_config_')
          /\ heartbeat_timeout_' = plugin_config_'.registry_config.heartbeat_timeout + 1000]_vars

(* C7: initialized and with a non-null info, Register returns 0 exactly when
   the backend answers kReturnOk or kReturnExistedResource; it then stores the
   instance id the call left into info's meta under "instance_id"; on any
   other code it returns -1 and info is as it was. *)
C7_RegisterResult ==
  Served("Register")
    => /\ Len(last.calls) = 1
       /\ last.ret = 0 <=> last.calls[1].code \in {"kReturnOk", "kReturnExistedResource"}
       /\ last.ret = 0
            => /\ last.info # nullptr
               /\ "instance_id" \in DOMAIN Deref(last.info).meta
               /\ Deref(last.info).meta["instance_id"] = last.calls[1].instance_id
       /\ last.ret # 0 => (last.ret = -1 /\ last.info = last.arg)

C7_Witness ==
  /\ Served("Register") /\ last.ret = 0
  /\ last.calls[1].code = "kReturnExistedResource"
  /\ Deref(last.info).meta["instance_id"] = "inst-1"
  /\ "instance_id" \notin DOMAIN Deref(last.arg).meta

(* C8 as claimed: Unregister routes by the instance_id of the index entry of
   the resolved (namespace, name): non-empty gives a (token, instance_id)
   request, empty a (namespace, name, token, host, port) request; 0 is
   returned only on kReturnOk. *)
C8_RoutesByPolicy ==
  (Served("Unregister") /\ ResolvedKey \in DOMAIN services_config_)
    => /\ Len(last.calls) = 1
       /\ IF services_config_[ResolvedKey].instance_id # ""
          THEN last.calls[1].req.shape = "instance_id"
          ELSE last.calls[1].req.shape = "address"
       /\ last.ret = 0 <=> last.calls[1].code = "kReturnOk"

(* C8 amended: Unregister routes by the instance id of the translated info,
   the "instance_id" entry of the caller's metadata (the one Register writes
   back): non-empty gives a (token, instance_id) request, empty or absent a
   (namespace, name, token, host, port) request, whatever the index entry's
   instance_id is; 0 is returned only on kReturnOk. *)
C8_RoutesByInfo ==
  Served("Unregister")
    => LET info == Deref(last.arg)
           req == last.calls[1].req
       IN /\ Len(last.calls) = 1
          /\ last.calls[1].api = "ProviderApi::Deregister"
          /\ IF "instance_id" \in DOMAIN info.meta /\ info.meta["instance_id"] # ""
             THEN /\ req.shape = "instance_id"
                  /\ req.instance_id = info.meta["instance_id"]
             ELSE /\ req.shape = "address"
                  /\ req.service_namespace = ResolvedKey.namespace_
                  /\ req.service_name = info.name
                  /\ req.host = info.host
                  /\ req.port = info.port
          /\ last.ret = 0 <=> last.calls[1].code = "kReturnOk"
          /\ last.ret # 0 => last.ret = -1

\* an info without instance id whose index entry has one goes out by address
C8_Witness ==
  /\ Served("Unregister") /\ ResolvedKey \in DOMAIN services_config_
  /\ services_config_[ResolvedKey].instance_id # ""
  /\ last.calls[1].req.shape = "address"
  /\ last.ret = 0

(* C9: initialized, HeartBeat and AsyncHeartBeat for an info whose resolved
   (namespace, name) is not in the index fail (-1, an exceptional future) and
   send nothing to the backend. *)
C9_UnknownServiceRefused ==
  ((Served("HeartBeat") \/ Served("AsyncHeartBeat")) /\ ResolvedKey \notin DOMAIN services_config_)
    => (Failed /\ last.calls = <<>>)

C9_Witness ==
  /\ Served("AsyncHeartBeat") /\ ResolvedKey \notin DOMAIN services_config_
  /\ services_config_ # EmptyMeta
  /\ last.future = "exception"

(* C10: initialized, for an info whose resolved (namespace, name) is in the
   index, HeartBeat makes exactly one ProviderApi::Heartbeat call, by (token,
   instance_id) of the entry when the entry's instance_id is non-empty and
   else by (namespace, name, entry's token, info's host, info's port), and
   returns 0 exactly when the backend answers kReturnOk. *)
C10_HeartBeatRequest ==
  (Served("HeartBeat") /\ ResolvedKey \in DOMAIN services_config_)
    => LET info == Deref(last.arg)
           policy == services_config_[ResolvedKey]
           req == last.calls[1].req
       IN /\ Len(last.calls) = 1
          /\ last.calls[1].api = "ProviderApi::Heartbeat"
          /\ req.service_token = policy.token
          /\ IF policy.instance_id # ""
             THEN req.shape = "instance_id" /\ req.instance_id = policy.instance_id
             ELSE /\ req.shape = "address"
                  /\ req.service_namespace = ResolvedKey.namespace_
                  /\ req.service_name = ResolvedKey.name_
                  /\ req.host = info.host
                  /\ req.port = info.port
          /\ last.ret = 0 <=> last.calls[1].code = "kReturnOk"
          /\ last.ret # 0 => last.ret = -1

C10_Witness ==
  /\ Served("HeartBeat") /\ ResolvedKey \in DOMAIN services_config_
  /\ services_config_[ResolvedKey].instance_id # ""
  /\ last.calls[1].req.shape = "instance_id"
  /\ last.ret = 0

\* HeartBeat or AsyncHeartBeat must return before the backend for the last input
HeartbeatMustRefuse ==
  IF ~last.was_init THEN TRUE
  ELSE IF last.arg = nullptr THEN TRUE
  ELSE ResolvedKey \notin DOMAIN services_config_

\* the heartbeat request the last input resolves to
HeartbeatMustSend ==
  LET info == Deref(last.arg)
      policy == services_config_[ResolvedKey]
  IN IF policy.instance_id = ""
     THEN [shape |-> "address", service_namespace |-> ResolvedKey.namespace_,
           service_name |-> info.name, service_token |-> policy.token, instance_id |-> "",
           host |-> info.host, port |-> info.port, timeout |-> heartbeat_timeout_]
     ELSE [shape |-> "instance_id", service_namespace |-> "", service_name |-> "",
           service_token |-> policy.token, instance_id |-> policy.instance_id,
           host |-> "", port |-> 0, timeout |-> heartbeat_timeout_]

(* C11: in every adapter state and for every info, HeartBeat and
   AsyncHeartBeat return before the backend under the same conditions
   (uninitialized, null info, unknown service) and otherwise send the same
   request (namespace, name, token, instance id, host, port, timeout): one
   through ProviderApi::Heartbeat, the other through
   ProviderApi::AsyncHeartbeat. *)
C11_SyncAsyncSameRequest ==
  last.op \in {"HeartBeat", "AsyncHeartBeat"}
    => IF HeartbeatMustRefuse
       THEN last.calls = <<>> /\ Failed
       ELSE /\ Len(last.calls) = 1
            /\ last.calls[1].req = HeartbeatMustSend
            /\ last.calls[1].api = IF last.op = "HeartBeat" THEN "ProviderApi::Heartbeat"
                                   ELSE "ProviderApi::AsyncHeartbeat"

C11_Witness ==
  /\ Served("AsyncHeartBeat") /\ last.calls # <<>>
  /\ last.calls[1].req.shape = "instance_id"
  /\ last.calls[1].req.instance_id = "inst-B"
  /\ last.calls[1].req.timeout = 3000

(* C12: the future AsyncHeartBeat returns is completed when the call returns,
   exceptional if the dispatch answered a code other than kReturnOk (or was
   never made) and ready if it answered kReturnOk; the callback the backend
   invokes later, with whatever outcome, changes neither that future nor any
   member of the adapter. *)
C12_FutureSettledAtReturn ==
  [][/\ last'.op = "AsyncHeartBeat"
          => /\ future_' \in {"ready", "exception"}
             /\ future_' = last'.future
             /\ IF last'.calls = <<>> THEN future_' = "exception"
                ELSE future_' = "ready" <=> last'.calls[1].code = "kReturnOk"
     /\ last'.op = "Callback"
          => /\ future_' = future_
             /\ UNCHANGED adapter]_vars

C12_Witness ==
  /\ last.op = "Callback" /\ last.calls[1].code = "kReturnTimeout"
  /\ future_ = "ready" /\ init_

\* the namespace the last operation's info must resolve to
MustResolveTo ==
  LET meta == Deref(last.arg).meta IN
  IF trpc_config.env_namespace # "" THEN trpc_config.env_namespace
  ELSE IF "namespace" \in DOMAIN meta THEN meta["namespace"]
  ELSE ""

(* C13: in Register, Unregister, HeartBeat and AsyncHeartBeat the resolved
   namespace is the global env_namespace when that is non-empty, else the
   "namespace" entry of the caller's metadata, else the empty string: every
   request that names a service carries it, a request by instance id carries
   the token and instance id of the index entry under it, and a heartbeat is
   sent exactly when the index has an entry under it. *)
C13_NamespaceResolution ==
  (last.op \in Operations /\ last.was_init /\ last.arg # nullptr)
    => LET key == [namespace_ |-> MustResolveTo, name_ |-> Deref(last.arg).name] IN
       /\ \A i \in DOMAIN last.calls :
            IF last.calls[i].req.shape \in {"register", "address"}
            THEN last.calls[i].req.service_namespace = MustResolveTo
            ELSE last.op \in {"HeartBeat", "AsyncHeartBeat"}
                   => /\ key \in DOMAIN services_config_
                      /\ last.calls[i].req.service_token = services_config_[key].token
                      /\ last.calls[i].req.instance_id = services_config_[key].instance_id
       /\ last.op \in {"HeartBeat", "AsyncHeartBeat"}
            => (last.calls # <<>> <=> key \in DOMAIN services_config_)

\* a non-empty env_namespace wins over a different metadata entry
C13_Witness ==
  /\ Served("Register") /\ last.calls # <<>>
  /\ trpc_config.env_namespace = "ns1"
  /\ "namespace" \in DOMAIN Deref(last.arg).meta
  /\ Deref(last.arg).meta["namespace"] = "ns2"
  /\ last.calls[1].req.service_namespace = "ns1"

(* C14: every request Register, Unregister, HeartBeat and AsyncHeartBeat send
   carries the heartbeat_timeout of the configuration the adapter was
   initialized with plus 1000, after any number of Init/Destroy cycles; an
   Init that initializes the adapter leaves heartbeat_timeout_ at that value.
   (While init_ holds, plugin_config_ is the configuration of the Init that
   set it: a repeated Init returns before loading anything.) *)
C14_TimeoutIsConfiguredPlus1000 ==
  /\ last.op \in Operations
       => \A i \in DOMAIN last.calls :
            last.calls[i].req.timeout = plugin_config_.registry_config.heartbeat_timeout + 1000
  /\ (last.op = "Init" /\ ~last.was_init /\ init_)
       => heartbeat_timeout_ = plugin_config_.registry_config.heartbeat_timeout + 1000

\* configured 5000 gives 6000, on the second backend handle
C14_Witness ==
  /\ Served("Unregister") /\ last.calls # <<>>
  /\ provider_api_ = 2
  /\ plugin_config_.registry_config.heartbeat_timeout = 5000
  /\ last.calls[1].req.timeout = 6000

\* the token the caller set explicitly, and the token of the index entry
ExplicitToken ==
  LET meta == Deref(last.arg).meta IN
  IF "token" \in DOMAIN meta THEN meta["token"] ELSE ""

IndexToken ==
  LET key == [namespace_ |-> MustResolveTo, name_ |-> Deref(last.arg).name] IN
  IF key \in DOMAIN services_config_ THEN services_config_[key].token ELSE ""

(* C15: the token of the request Register and Unregister send is the caller's
   explicit token when that is non-empty, else the token of the index entry
   for the resolved (namespace, name); the missing-token condition is raised
   exactly when neither is non-empty, an index entry with an empty token
   included. *)
C15_TokenResolution ==
  (last.op \in {"Register", "Unregister"} /\ last.calls # <<>>)
    => /\ last.calls[1].req.service_token =
            IF ExplicitToken # "" THEN ExplicitToken ELSE IndexToken
       /\ last.token_is_empty <=> (ExplicitToken = "" /\ IndexToken = "")

(* C16: when the index has an entry for the resolved (namespace, name), the
   metadata of the request Register sends is the caller's metadata overlaid
   with the policy's: every key of the caller is present with the caller's
   value, and the policy's other keys are added. *)
C16_MetadataOverlay ==
  (Served("Register") /\ last.calls # <<>>)
    => LET key == [namespace_ |-> MustResolveTo, name_ |-> Deref(last.arg).name]
           own == Deref(last.arg).meta
           sent == last.calls[1].req.metadata
       IN key \in DOMAIN services_config_
            => LET policy == services_config_[key].metadata IN
               /\ DOMAIN sent = DOMAIN own \cup DOMAIN policy
               /\ \A k \in DOMAIN own : sent[k] = own[k]
               /\ \A k \in DOMAIN policy \ DOMAIN own : sent[k] = policy[k]

\* the last operation's info has no token of its own and no index entry
NoTokenAnywhere ==
  /\ last.op \in Operations /\ last.was_init /\ last.arg # nullptr
  /\ ExplicitToken = ""
  /\ [namespace_ |-> MustResolveTo, name_ |-> Deref(last.arg).name] \notin DOMAIN services_config_

(* C17: when the adapter is initialized and an info has no token of its own
   and no index entry for its (namespace, name), Register and Unregister
   still send exactly one backend request, with an empty token, and return
   what the backend's return code says (Register: 0 on OK or existed-resource,
   Unregister: 0 on OK, else -1); HeartBeat and AsyncHeartBeat for the same
   info fail without a backend call. *)
C17_MissingTokenFailsOpen ==
  NoTokenAnywhere
    => CASE last.op = "Register" ->
              /\ Len(last.calls) = 1
              /\ last.calls[1].api = "ProviderApi::Register"
              /\ last.calls[1].req.service_token = ""
              /\ last.token_is_empty
              /\ last.ret = IF last.calls[1].code \in {"kReturnOk", "kReturnExistedResource"}
                            THEN 0 ELSE -1
         [] last.op = "Unregister" ->
              /\ Len(last.calls) = 1
              /\ last.calls[1].api = "ProviderApi::Deregister"
              /\ last.calls[1].req.service_token = ""
              /\ last.token_is_empty
              /\ last.ret = IF last.calls[1].code = "kReturnOk" THEN 0 ELSE -1
         [] last.op = "HeartBeat" -> last.calls = <<>> /\ last.ret = -1
         [] last.op = "AsyncHeartBeat" -> last.calls = <<>> /\ last.future = "exception"

\* an Unregister with no token that the backend accepted
C17_Witness ==
  /\ NoTokenAnywhere /\ last.op = "Unregister"
  /\ last.calls # <<>> /\ last.calls[1].req.service_token = ""
  /\ last.calls[1].code = "kReturnOk" /\ last.ret = 0

(* C18: the health-check flag of the request Register sends is the
   process-wide heartbeat default (1 when enabled, 0 otherwise) when the
   caller's metadata has no enable_health_check entry, and the caller's own
   choice (1 for "1", else 0) when it has one, whatever the default is. *)
C18_HealthCheckFlag ==
  (Served("Register") /\ last.calls # <<>>)
    => LET meta == Deref(last.arg).meta IN
       last.calls[1].req.health_check_flag =
         IF "enable_health_check" \in DOMAIN meta
         THEN (IF meta["enable_health_check"] = "1" THEN 1 ELSE 0)
         ELSE (IF trpc_config.enable_heartbeat THEN 1 ELSE 0)

\* the caller switched the health check off while the default is on
C18_Witness ==
  /\ Served("Register") /\ last.calls # <<>>
  /\ trpc_config.enable_heartbeat
  /\ "enable_health_check" \in DOMAIN Deref(last.arg).meta
  /\ Deref(last.arg).meta["enable_health_check"] = "0"
  /\ last.calls[1].req.health_check_flag = 0

(* C20: in every reachable state init_ holds only if provider_api_ is a
   non-null handle, the one created last, and the shared context is
   initialized and has not been destroyed since; so every backend call of
   Register, Unregister, HeartBeat and AsyncHeartBeat is made while init_
   holds, on that handle. *)
C20_InitializedMeansLive ==
  /\ init_ => (provider_api_ # 0 /\ provider_api_ = provider_apis /\ share_context)
  /\ (last.op \in Operations /\ last.calls # <<>>)
       => (last.was_init /\ init_ /\ provider_api_ # 0 /\ share_context)

\* a backend call on the handle of the second Init
C20_Witness ==
  /\ last.op = "HeartBeat" /\ last.calls # <<>>
  /\ init_ /\ provider_api_ = 2 /\ share_context

----------------------------------------------------------------------------
(* Concurrently running operations.  Init and Destroy run only while no
   operation is in flight; an operation is the steps between which another
   thread can run: it reads its RegistryInfo and builds the request, calls
   the backend, and, in Register, writes the instance id into the info. *)

Threads == 1 .. MaxThreads

\* the one RegistryInfo the caller threads pass
SharedObject == "info"
SharedInfos == { Info("svcA", ("namespace" :> "ns1") @@ ("region" :> "bj")),
                 Info("svcB", ("namespace" :> "ns2") @@ ("enable_health_check" :> "0")) }

Idle == [pc |-> "idle", op |-> "none", req |-> NoRequest, alone |-> NoRequest]

\* the request an operation builds from the info it read; NoRequest when it
\* returns before the backend
RequestOf(op, info) ==
  CASE op = "Register" ->
         InstanceRegisterRequest(RegisterHealthCheck(info, SetupPolarisRegistryInfo(info)))
    [] op = "Unregister" -> DeregisterRequest(SetupPolarisRegistryInfo(info))
    [] op = "HeartBeat" ->
         IF HeartbeatFound(info) THEN InstanceHeartbeatRequest(info) ELSE NoRequest
    [] op = "AsyncHeartBeat" ->
         IF AsyncHeartbeatKey(info) \in DOMAIN services_config_
         THEN AsyncInstanceHeartbeatRequest(info) ELSE NoRequest

\* a Register of another thread is about to write the shared info
WriteInFlight(t) == \E u \in Threads \ {t} : threads[u].pc = "write"

\* what a read of info.meta can see while another thread inserts into that
\* std::map without synchronization: any part of its entries
RacyReads(info) ==
  { [info EXCEPT !.meta = [k \in keys |-> info.meta[k]]] : keys \in SUBSET DOMAIN info.meta }

ThreadBegin(t) ==
  /\ threads[t].pc = "idle"
  /\ \E op \in {"Register", "Unregister", "HeartBeat", "AsyncHeartBeat"} :
       threads' = [threads EXCEPT ![t] = [Idle EXCEPT !.pc = "translate", !.op = op]]
  /\ UNCHANGED <<adapter, trpc_config, pending, future_, last, objects>>

\* the checks of init_ and info, then the reads of *info
ThreadTranslate(t) ==
  /\ threads[t].pc = "translate"
  /\ IF Refused(PtrTo(objects[SharedObject]))
     THEN threads' = [threads EXCEPT ![t].pc = "done"]
     ELSE \E seen \in IF WriteInFlight(t) THEN RacyReads(objects[SharedObject])
                      ELSE {objects[SharedObject]} :
            LET req == RequestOf(threads[t].op, seen) IN
            threads' = [threads EXCEPT
                          ![t].pc = IF req = NoRequest THEN "done" ELSE "call",
                          ![t].req = req,
                          ![t].alone = RequestOf(threads[t].op, objects[SharedObject])]
  /\ UNCHANGED <<adapter, trpc_config, pending, future_, last, objects>>

ThreadCall(t) ==
  /\ threads[t].pc = "call"
  /\ \E code \in ReturnCodes :
       threads' = [threads EXCEPT
                     ![t].pc = IF threads[t].op = "Register" /\ RegisterSucceeded(code)
                               THEN "write" ELSE "done"]
  /\ UNCHANGED <<adapter, trpc_config, pending, future_, last, objects>>

\* const_cast<RegistryInfo*>(info)->meta["instance_id"] = instance_id
ThreadWrite(t) ==
  /\ threads[t].pc = "write"
  /\ objects' = [objects EXCEPT ![SharedObject] = WriteInstanceId(@, "inst-1")]
  /\ threads' = [threads EXCEPT ![t].pc = "done"]
  /\ UNCHANGED <<adapter, trpc_config, pending, future_, last>>

ThreadReturn(t) ==
  /\ threads[t].pc = "done"
  /\ threads' = [threads EXCEPT ![t] = Idle]
  /\ UNCHANGED <<adapter, trpc_config, pending, future_, last, objects>>

NoOperationInFlight == \A t \in Threads : threads[t].pc = "idle"

SerializedInit == NoOperationInFlight /\ RegistryInit

SerializedDestroy == NoOperationInFlight /\ Destroy

ConcurrentInitial ==
  /\ init_ = FALSE
  /\ plugin_config_ = DefaultPluginConfig
  /\ heartbeat_interval_ = 0
  /\ heartbeat_timeout_ = 0
  /\ services_config_ = EmptyMeta
  /\ provider_api_ = 0
  /\ provider_apis = 0
  /\ share_context = FALSE
  /\ trpc_config \in TrpcConfigs
  /\ pending = 0
  /\ future_ = "none"
  /\ last = [op |-> "none", arg |-> nullptr, was_init |-> FALSE, ret |-> 0,
             future |-> "none", calls |-> <<>>, info |-> nullptr]
  /\ objects \in [{SharedObject} -> SharedInfos]
  /\ threads = [t \in Threads |-> Idle]

ConcurrentNext ==
  \/ SerializedInit
  \/ SerializedDestroy
  \/ \E t \in Threads : ThreadBegin(t)
  \/ \E t \in Threads : ThreadTranslate(t)
  \/ \E t \in Threads : ThreadCall(t)
  \/ \E t \in Threads : ThreadWrite(t)
  \/ \E t \in Threads : ThreadReturn(t)

ConcurrentSpec == ConcurrentInitial /\ [][ConcurrentNext]_vars

(* C19, first part: Register, Unregister, HeartBeat and AsyncHeartBeat leave
   the index, init_, the backend handle and the derived timeout (and every
   other member of the adapter) as they were, whatever their outcome. *)
OperationsKeepAdapter ==
  [][last'.op \in Operations => UNCHANGED adapter]_vars

(* C19: with Init and Destroy serialized against all operations, every
   operation that runs concurrently with others sends the backend request it
   sends when it runs alone on the same info: the request built from what it
   read is the request built from the info as it is at that moment. *)
C19_InterleavingSameAsAlone ==
  \A t \in DOMAIN threads : threads[t].req = threads[t].alone

====
